---- MODULE Spec2Model ----
(***************************************************************************)
(* Model of cisco-kube-client: the watch session (lib/watch-emitter.js)   *)
(* and the endpoint request with its 401 re-authentication                *)
(* (lib/endpoints.js baseRequest, lib/auth.js).                           *)
(***************************************************************************)
EXTENDS Integers, Sequences, FiniteSets, TLC

\* ------------------------------------------------------------------ bounds
\* resource versions are 1..MaxVer; 0 is "no resourceVersion in the object"
MaxVer == 2
\* connections one watch session may open
MaxConn == 3
\* largest retryCount a caller passes to start()
MaxRetry == 2
\* frames the API server writes during one session
MaxFrames == 2
\* calls of start() made by the caller
MaxCalls == 2
\* requests made through one client
MaxReq == 1
\* replicas a replication controller starts with, at most
MaxReplicas == 2
\* pods on the node that is evacuated, at most
MaxPods == 3

\* JavaScript null / undefined for retryCount
Null == -1
\* a string parseToken returns that is no token of the oAuth server
NotAToken == 99
\* an object that has no metadata at all
NoMeta == -1

VARIABLES
    started,    \* WatchEmitter#started
    rv,         \* WatchEmitter#options.qs.resourceVersion
    conns,      \* the requests opened by start(), oldest first, each with its closure
    emitted,    \* the events the last handler run emitted on the WatchEmitter
    written,    \* frames the server has written in this session
    calls,      \* calls of start() made by the caller
    budget,     \* retryCount of the start() call that opened the first request
    at,         \* the request whose handler ran last (0: none, the caller acted)
    chunk       \* the chunk that handler received (<<>>: it was no 'data' handler)

wvars == <<started, rv, conns, emitted, written, calls, budget, at, chunk>>

VARIABLES
    token,      \* ClientConfig#token: 0 is null, tokens are 1, 2, ...
    auth,       \* ClientConfig#auth holds credentials (FALSE: it is null)
    preserve,   \* authOptions.preserveAuth is not false
    unsafe,     \* the host is plain http and authOptions.allowUnsafe is not set
    issued,     \* the newest token the oAuth server has issued
    flushed,    \* the token the last flush cleared, 0 once an exchange has succeeded
    req         \* the calls of baseRequest, each with its closure and its promise

rvars == <<token, auth, preserve, unsafe, issued, flushed, req>>

VARIABLES
    wrote       \* the API server: how many events it has written on each connection

VARIABLES
    listening   \* the caller has listeners on the WatchEmitter

VARIABLES
    pin,        \* the options and the client configuration given to parseOptions
    pout        \* the resource and the url parseOptions has made of them

pvars == <<pin, pout>>

VARIABLES
    wcall,      \* the call of Endpoint.prototype.watch: its promise and its callback
    wopts,      \* WatchEmitter#options.auth.bearer (0: null, or no WatchEmitter yet)
    carried     \* the bearer token each request opened by start() carries

cvars == <<wcall, wopts, carried>>

VARIABLES
    replicas,   \* the API server: spec.replicas of the replication controller
    scall,      \* the call of replicationControllers.scale
    node,       \* the API server: spec.unschedulable of the node
    pods,       \* the API server: the pods on the node, each running or deleted
    ecall       \* the call of nodes.evacuate

svars == <<replicas, scall>>
nvars == <<node, pods, ecall>>
ovars == <<svars, nvars>>
xvars == <<listening, pvars, cvars, ovars>>
evars == <<wrote, xvars>>
vars == <<wvars, rvars, evars>>

\* ------------------------------------------------------------ watch frames
Types == {"ADDED", "MODIFIED", "DELETED", "ERROR"}
Frames == [type : Types, ver : NoMeta..MaxVer]

\* A frame travels as two pieces: the part up to the type, and the object.
TypeSym(t) == [k |-> "type", t |-> t, v |-> 0]
ObjSym(o) == [k |-> "obj", t |-> "-", v |-> o]
Serialize(f) == <<TypeSym(f.type), ObjSym(f.ver)>>

\* JSON.parse(buffer.toString()) succeeds exactly on one complete frame
Parses(b) == Len(b) = 2 /\ b[1].k = "type" /\ b[2].k = "obj"

Ev(name, n, code) == [ev |-> name, n |-> n, code |-> code]

\* EventName with the names of MODIFIED and DELETED exchanged
EventNameSwapped(t) ==
    CASE t = "ADDED" -> "create"
      [] t = "MODIFIED" -> "delete"
      [] t = "DELETED" -> "update"
      [] OTHER -> "none"

EventName(t) ==
    CASE t = "ADDED" -> "create"
      [] t = "MODIFIED" -> "update"
      [] t = "DELETED" -> "delete"
      [] OTHER -> "none"

Codes == {"ESOCKETTIMEDOUT", "ETIMEDOUT", "ECONNRESET"}
IsTimeout(code) == code \in {"ESOCKETTIMEDOUT", "ETIMEDOUT"}
\* a request that has signalled 'error': by a timeout, or by another transport error
Failed(code) == IF IsTimeout(code) THEN "timedout" ELSE "broken"
Statuses == {200, 399, 400, 401}

\* ------------------------------------------------------------ WatchEmitter
\* a constructor that opens the stream itself
WatchEmitterAutoStart ==
    /\ started = TRUE
    /\ rv \in 0..MaxVer
    /\ conns = <<[retry |-> Null, qsrv |-> rv, state |-> "open", response |-> "none",
                  buffer |-> <<>>, pending |-> <<>>]>>
    /\ emitted = <<>>
    /\ written = 0
    /\ calls = 0
    /\ budget = Null
    /\ at = 0
    /\ chunk = <<>>

\* new WatchEmitter(response, options, logger): not started, no request
WatchEmitterInit ==
    /\ started = FALSE
    /\ rv \in 0..MaxVer
    /\ conns = <<>>
    /\ emitted = <<>>
    /\ written = 0
    /\ calls = 0
    /\ budget = Null
    /\ at = 0
    /\ chunk = <<>>

\* a request whose closure begins with the bytes another closure left behind
NewConnStaleBuffer(n, v) ==
    [retry |-> n, qsrv |-> v, state |-> "open", response |-> "none",
     buffer |-> <<TypeSym("ADDED")>>, pending |-> <<>>]

\* request(this.options): a new request with its own closure (retryCount, buffer).
\* qsrv is the resourceVersion it carries, pending what is left to deliver of the
\* frame the server is writing to it.
NewConn(n, v) ==
    [retry |-> n, qsrv |-> v, state |-> "open", response |-> "none",
     buffer |-> <<>>, pending |-> <<>>]

\* A request that has signalled 'error' or 'end' gets no further 'data' or
\* 'error': its closure (retryCount, buffer) is never read again, and only how it
\* finished and, until its response ends, what response it had are kept.
Over(conn, state) ==
    [retry |-> Null, qsrv |-> 0, state |-> state,
     response |-> IF state = "ended" THEN "over" ELSE conn.response,
     buffer |-> <<>>, pending |-> <<>>]

\* start() without the `started` guard of lines 94-100
startUnguarded(s, cs, v, n, force) ==
    [started |-> TRUE, conns |-> Append(cs, NewConn(n, v))]

\* start(retryCount, force), up to the request it opens
start(s, cs, v, n, force) ==
    IF s /\ ~force
    THEN [started |-> s, conns |-> cs]
    ELSE [started |-> TRUE, conns |-> Append(cs, NewConn(n, v))]

\* the caller calls start(retryCount, force)
CallerStart(n, force) ==
    /\ calls < MaxCalls
    /\ LET r == start(started, conns, rv, n, force)
       IN /\ Len(r.conns) <= MaxConn
          /\ started' = r.started
          /\ conns' = r.conns
          /\ budget' = IF conns = <<>> /\ r.conns # <<>> THEN n ELSE budget
    /\ calls' = calls + 1
    /\ emitted' = <<>>
    /\ at' = 0
    /\ chunk' = <<>>
    /\ UNCHANGED <<rv, written>>

\* the response handler with errors() taking 400 for a success
ResponseEventsAbove400(status) ==
    IF status > 400
    THEN <<Ev("error", status, "HttpError")>>
    ELSE <<Ev("response", status, "-")>>

\* requestListener.on('response'): errors(null, response) is an error from 400 up
ResponseEvents(status) ==
    IF status > 399
    THEN <<Ev("error", status, "HttpError")>>
    ELSE <<Ev("response", status, "-")>>

OnResponse(c, status) ==
    /\ c \in DOMAIN conns
    /\ conns[c].state = "open"
    /\ conns[c].response = "none"
    /\ conns' = [conns EXCEPT ![c].response = IF status > 399 THEN "error" ELSE "ok"]
    /\ emitted' = ResponseEvents(status)
    /\ at' = c
    /\ chunk' = <<>>
    /\ UNCHANGED <<started, rv, written, calls, budget>>

\* the error handler without the branch for a retryCount of null
ErrorDecisionNoDefault(rc, code) ==
    IF rc > 0 /\ IsTimeout(code) THEN "decrement"
    ELSE "emit"

\* the error handler with `retryCount >= 0` in place of `retryCount > 0`
ErrorDecisionOneMore(rc, code) ==
    IF rc = Null /\ IsTimeout(code) THEN "again"
    ELSE IF rc >= 0 /\ IsTimeout(code) THEN "decrement"
    ELSE "emit"

\* requestListener.on('error'): what the handler decides for this closure
ErrorDecision(rc, code) ==
    IF rc = Null /\ IsTimeout(code) THEN "again"
    ELSE IF rc > 0 /\ IsTimeout(code) THEN "decrement"
    ELSE "emit"

OnError(c, code) ==
    /\ c \in DOMAIN conns
    /\ conns[c].state = "open"
    /\ LET rc == conns[c].retry
           d == ErrorDecision(rc, code)
           rc1 == IF d = "decrement" THEN rc - 1 ELSE rc
           cs1 == [conns EXCEPT ![c] = Over(@, Failed(code))]
           r == IF d = "emit"
                THEN [started |-> started, conns |-> cs1]
                ELSE start(started, cs1, rv, rc1, TRUE)
           evs == IF d = "emit" THEN <<Ev("error", 0, code)>> ELSE <<>>
       IN /\ Len(r.conns) <= MaxConn
          /\ started' = r.started
          /\ conns' = r.conns
          /\ emitted' = evs
    /\ at' = c
    /\ chunk' = <<>>
    /\ UNCHANGED <<rv, written, calls, budget>>

\* the data handler losing a chunk that does not complete a frame
DataResultDropsChunk(buf, data, v) ==
    LET b == buf \o data
    IN IF ~Parses(b)
       THEN [buffer |-> buf, emits |-> <<>>, rv |-> v]
       ELSE IF b[1].t \in {"ADDED", "MODIFIED", "DELETED"}
            THEN [buffer |-> <<>>,
                  emits |-> <<Ev(EventName(b[1].t), b[2].v, "-")>>,
                  rv |-> IF b[2].v > 0 THEN b[2].v ELSE v]
            ELSE [buffer |-> <<>>, emits |-> <<>>, rv |-> v]

\* the data handler without the assignments to options.qs.resourceVersion
DataResultKeepsVersion(buf, data, v) ==
    LET b == buf \o data
    IN IF ~Parses(b)
       THEN [buffer |-> b, emits |-> <<>>, rv |-> v]
       ELSE IF b[1].t \in {"ADDED", "MODIFIED", "DELETED"}
            THEN [buffer |-> <<>>,
                  emits |-> <<Ev(EventName(b[1].t), b[2].v, "-")>>,
                  rv |-> v]
            ELSE [buffer |-> <<>>, emits |-> <<>>, rv |-> v]

\* requestListener.on('data'): buffer, events and tracked version after one chunk.
\* A buffer that does not parse is kept (the SyntaxError is swallowed). A frame of
\* another type, or an object without metadata, throws inside the try block
\* (ReferenceError, TypeError); the catch drops these too, because
\* `! error instanceof SyntaxError` is always false.
DataResult(buf, data, v) ==
    LET b == buf \o data
    IN IF ~Parses(b)
       THEN [buffer |-> b, emits |-> <<>>, rv |-> v]
       ELSE IF b[1].t \in {"ADDED", "MODIFIED", "DELETED"}
            THEN [buffer |-> <<>>,
                  emits |-> <<Ev(EventName(b[1].t), b[2].v, "-")>>,
                  rv |-> IF b[2].v > 0 THEN b[2].v ELSE v]
            ELSE [buffer |-> <<>>, emits |-> <<>>, rv |-> v]

\* The server writes whole frames and the transport cuts the byte stream into
\* chunks anywhere: the next chunk is what is left of the frame being delivered
\* (pending), or that followed by the first pieces of one more frame f.
StreamAhead(p, f, more) == IF more THEN p \o Serialize(f) ELSE p

OnData(c, f, more, k) ==
    /\ c \in DOMAIN conns
    /\ conns[c].state = "open"
    /\ conns[c].response # "none"
    /\ more => written < MaxFrames
    /\ LET s == StreamAhead(conns[c].pending, f, more)
           lo == IF more THEN Len(conns[c].pending) + 1 ELSE 1
       IN /\ k \in lo..Len(s)
          /\ LET r == DataResult(conns[c].buffer, SubSeq(s, 1, k), rv)
             IN /\ conns' = [conns EXCEPT ![c].buffer = r.buffer,
                                          ![c].pending = SubSeq(s, k + 1, Len(s))]
                /\ rv' = r.rv
                /\ emitted' = r.emits
                /\ chunk' = SubSeq(s, 1, k)
    /\ written' = IF more THEN written + 1 ELSE written
    /\ at' = c
    /\ UNCHANGED <<started, calls, budget>>

\* the end handler without `self.started = false`
EndRestartStillStarted(cs, v) == start(TRUE, cs, v, Null, FALSE)

\* requestListener.on('end'): started = false; start()
EndRestart(cs, v) == start(FALSE, cs, v, Null, FALSE)

\* The handlers stay on a request for its whole life and start() never aborts a
\* request, so the 'end' of a response is handled whether or not the request has
\* signalled 'error' before (a timed-out request is aborted, and its response
\* then ends).
OnEnd(c) ==
    /\ c \in DOMAIN conns
    /\ conns[c].state \in {"open", "timedout", "broken"}
    /\ conns[c].response # "none"
    /\ LET r == EndRestart([conns EXCEPT ![c] = Over(@, "ended")], rv)
       IN /\ Len(r.conns) <= MaxConn
          /\ started' = r.started
          /\ conns' = r.conns
    /\ emitted' = <<>>
    /\ at' = c
    /\ chunk' = <<>>
    /\ UNCHANGED <<rv, written, calls, budget>>

\* ---------------------------------------------------------------- errors
NoError == [kind |-> "none", status |-> 0, code |-> "-", from |-> "-", logged |-> FALSE]
Err(kind, status, code, from) ==
    [kind |-> kind, status |-> status, code |-> code, from |-> from, logged |-> FALSE]

\* The Location header of a response: absent, or a url without a fragment, or
\* a url whose fragment is a list of parameters 'name=value&...'. len is the
\* length of the value, Null for a parameter without '='.
Param(name, len) == [name |-> name, len |-> len]
Params == {Param(n, l) : n \in {"access_token", "error"}, l \in {Null, 3, 13}}
NoLocation == [present |-> FALSE, hash |-> FALSE, params |-> <<>>]
NoFragment == [present |-> TRUE, hash |-> FALSE, params |-> <<>>]
Fragment(ps) == [present |-> TRUE, hash |-> TRUE, params |-> ps]
Locations ==
    {NoLocation, NoFragment, Fragment(<<>>)}
    \cup {Fragment(<<q>>) : q \in Params}

\* What the callback of request() receives: a transport error (code), or a
\* response with a status and, from the oAuth server, a Location header; json
\* tells whether its body, a string, is valid JSON.
Reply(status, code, loc) == [status |-> status, code |-> code, loc |-> loc, json |-> TRUE]
\* a response of the API server whose body JSON.parse rejects
BadBody == [Reply(200, "-", NoLocation) EXCEPT !.json = FALSE]
\* no answer of the oAuth server yet
NoReply == Reply(0, "-", NoLocation)
ApiReplies ==
    {Reply(s, "-", NoLocation) : s \in {200, 401, 403}}
    \cup {Reply(0, "ENOTFOUND", NoLocation), BadBody}
AuthReplies ==
    {Reply(302, "-", l) : l \in Locations}
    \cup {Reply(401, "-", NoLocation), Reply(0, "ENOTFOUND", NoLocation)}

\* errors(error, response): the transport error itself, an HttpError for a
\* status above 399, otherwise null
GetError(reply, from) ==
    IF reply.code # "-" THEN Err("transport", 0, reply.code, from)
    ELSE IF reply.status > 399 THEN Err("HttpError", reply.status, "-", from)
    ELSE NoError

\* errors.throw(log, level, error, data, message): logs the error and throws it,
\* so the promise of the calling handler is rejected with this very error
ErrorsThrow(e) == [outcome |-> "rejected", value |-> "-", error |-> e]

\* ------------------------------------------------------------------ auth
\* getNewToken without the refusal of plain http hosts
AuthenticateUnchecked(tok, cred, flush) ==
    LET t == IF flush /\ tok # 0 THEN 0 ELSE tok
    IN IF ~cred THEN [token |-> t, auth |-> cred, next |-> "resolved"]
       ELSE IF t # 0 THEN [token |-> t, auth |-> cred, next |-> "resolved"]
       ELSE [token |-> t, auth |-> IF preserve THEN cred ELSE FALSE, next |-> "exchange"]

\* getNewToken without `if (config.token)`: an exchange whenever there are credentials
AuthenticateAlwaysExchanges(tok, cred, flush) ==
    LET t == IF flush /\ tok # 0 THEN 0 ELSE tok
    IN IF ~cred THEN [token |-> t, auth |-> cred, next |-> "resolved"]
       ELSE IF unsafe THEN [token |-> t, auth |-> cred, next |-> "refused"]
       ELSE [token |-> t, auth |-> IF preserve THEN cred ELSE FALSE, next |-> "exchange"]

\* Authenticate(config, flush) up to the token exchange: the token and the
\* credentials it leaves, and whether the promise is resolved at once, rejected
\* at once, or waits for the oAuth server.
Authenticate(tok, cred, flush) ==
    LET t == IF flush /\ tok # 0 THEN 0 ELSE tok
    IN IF ~cred THEN [token |-> t, auth |-> cred, next |-> "resolved"]
       ELSE IF t # 0 THEN [token |-> t, auth |-> cred, next |-> "resolved"]
       ELSE IF unsafe THEN [token |-> t, auth |-> cred, next |-> "refused"]
       ELSE [token |-> t, auth |-> IF preserve THEN cred ELSE FALSE, next |-> "exchange"]

\* url.parse(location).hash.split('#')[1].split('&')[0].split('=')[1]: the
\* value of the first parameter of the fragment, whatever its name
FirstValue(loc) == IF loc.params = <<>> THEN Null ELSE loc.params[1].len

\* parseToken(response) throws a TokenParseError: without a Location header;
\* with one that has no fragment (hash is null and split throws); and when
\* what it extracts is not a string of 10 characters or more
parseToken(reply, from) ==
    IF ~reply.loc.present THEN Err("TokenParseError", 0, "-", from)
    ELSE IF ~reply.loc.hash THEN Err("TokenParseError", 0, "-", from)
    ELSE IF FirstValue(reply.loc) = Null \/ FirstValue(reply.loc) < 10
         THEN Err("TokenParseError", 0, "-", from)
    ELSE NoError

\* the string parseToken returns: the token the server issued (new) when the
\* first parameter of the fragment is access_token, the value of another
\* parameter otherwise
ParsedToken(loc, new) ==
    IF loc.params[1].name = "access_token" THEN new ELSE NotAToken

\* getNewToken, the two callbacks after requestAsync(options)
ExchangeError(reply, from) ==
    IF GetError(reply, from) # NoError
    THEN GetError(reply, from)
    ELSE parseToken(reply, from)

\* -------------------------------------------------------------- baseRequest
NewRequest ==
    [pc |-> "idle", hdrs |-> FALSE, bearer |-> 0, hdrAuth |-> 0, sent |-> <<>>,
     replies |-> <<>>, fresh |-> 0, flushes |-> 0, exchanges |-> 0,
     answer |-> NoReply, authError |-> NoError,
     outcome |-> "pending", value |-> "-", error |-> NoError]

Reqs == 1..MaxReq

RequestInit ==
    /\ token \in {0, 1}
    /\ auth \in BOOLEAN
    /\ preserve \in BOOLEAN
    /\ unsafe \in BOOLEAN
    /\ issued = 1
    /\ flushed = 0
    /\ req = [r \in Reqs |-> NewRequest]

\* the last catch of baseRequest: an error that is not marked `logged` is
\* marked and thrown again, one that is marked already is dropped, and the
\* promise is then fulfilled with undefined
CatchLogged(e) ==
    IF e.logged
    THEN [outcome |-> "resolved", value |-> "undefined", error |-> NoError]
    ELSE ErrorsThrow([e EXCEPT !.logged = TRUE])

Settled(q, s) ==
    [q EXCEPT !.pc = "done", !.outcome = s.outcome, !.value = s.value, !.error = s.error]

\* the catch on the n-th requestAsync(opts) that authenticates again on every 401
RetriesEvery401(n, e) == e.status = 401

\* the catch on the n-th requestAsync(opts) that authenticates again on any HttpError
RetriesAnyStatus(n, e) == n = 1 /\ e.status > 399

\* the catch on requestAsync(opts): only the first call has it, and it
\* authenticates again when error.statusCode == 401
Retries(n, e) == n = 1 /\ e.status = 401

\* what request puts on the wire for these options: the Authorization header is
\* made from options.auth.bearer, which replaces a header of that name given in
\* options.headers
WireToken(q) == q.bearer

\* self.client.authenticate(flush) called by request r, whose closure is q0, and
\* where r goes next
CallAuthenticate(r, q0, flush, resolved, waiting) ==
    LET a == Authenticate(token, auth, flush)
        q == [q0 EXCEPT !.flushes = IF flush THEN @ + 1 ELSE @]
    IN /\ token' = a.token
       /\ auth' = a.auth
       /\ flushed' = IF flush /\ token # 0 THEN token ELSE flushed
       /\ req' = [req EXCEPT ![r] =
                    CASE a.next = "resolved" -> [q EXCEPT !.pc = resolved]
                      [] a.next = "exchange" ->
                           [q EXCEPT !.pc = waiting, !.exchanges = @ + 1]
                      [] OTHER -> Settled(q, CatchLogged(Err("ClientError", 0, "-", "auth")))]
       /\ UNCHANGED <<preserve, unsafe, issued>>

\* baseRequest(self, method, query, body, opts): calls authenticate().
\* opts.headers exists after parseOptions for PATCH, or when the caller gave some.
baseRequest(r, method, headers) ==
    /\ req[r].pc = "idle"
    /\ CallAuthenticate(r, [req[r] EXCEPT !.hdrs = (method = "PATCH" \/ headers)],
                        FALSE, "authed", "auth")

\* getNewToken writing a token although the exchange failed
ExchangeTokenAlways(e, tok, new) == new

\* getNewToken: config.token = parseToken(response) is reached only when
\* neither errors(null, response) nor parseToken has thrown
ExchangeToken(e, tok, new) == IF e = NoError THEN new ELSE tok

\* the oAuth server answers the exchange that request r waits for
AuthReply(r, reply) ==
    /\ req[r].pc \in {"auth", "reauth"}
    /\ LET e == ExchangeError(reply, req[r].pc)
       IN IF e = NoError
          THEN /\ issued' = issued + 1
               /\ token' = ExchangeToken(e, token, ParsedToken(reply.loc, issued + 1))
               /\ flushed' = 0
               /\ req' = [req EXCEPT ![r].pc = IF @ = "auth" THEN "authed" ELSE "reauthed",
                                      ![r].answer = reply,
                                      ![r].fresh = IF req[r].pc = "reauth"
                                                   THEN ParsedToken(reply.loc, issued + 1)
                                                   ELSE @]
          ELSE /\ token' = ExchangeToken(e, token, issued + 1)
               /\ req' = [req EXCEPT ![r] =
                            Settled([@ EXCEPT !.authError = e, !.answer = reply],
                                    CatchLogged(ErrorsThrow([e EXCEPT !.logged = TRUE]).error))]
               /\ UNCHANGED <<issued, flushed>>
    /\ UNCHANGED <<auth, preserve, unsafe>>

\* authenticate().then: parseOptions(..., config), then requestAsync(opts)
Send(r) ==
    /\ req[r].pc = "authed"
    /\ req' = [req EXCEPT ![r].pc = "call",
                           ![r].bearer = token,
                           ![r].sent = <<token>>]
    /\ UNCHANGED <<token, auth, preserve, unsafe, issued, flushed>>

\* the promise that never settles when JSON.parse throws
ParseBodyHangs(reply) ==
    IF reply.json
    THEN [outcome |-> "resolved", value |-> "body", error |-> NoError]
    ELSE [outcome |-> "pending", value |-> "-", error |-> NoError]

\* the last then of baseRequest: response.body = JSON.parse(response.body),
\* whose SyntaxError goes to the catch that follows
ParseBody(reply) ==
    IF reply.json
    THEN [outcome |-> "resolved", value |-> "body", error |-> NoError]
    ELSE CatchLogged(Err("SyntaxError", 0, "-", "body"))

\* the API server answers, or the transport fails
ApiReply(r, reply) ==
    /\ req[r].pc = "call"
    /\ LET n == Len(req[r].sent)
           e == GetError(reply, IF n = 1 THEN "call1" ELSE "call2")
           q == [req[r] EXCEPT !.replies = Append(@, reply)]
       IN IF e = NoError
          THEN /\ req' = [req EXCEPT ![r] = Settled(q, ParseBody(reply))]
               /\ UNCHANGED <<token, auth, preserve, unsafe, issued, flushed>>
          ELSE IF Retries(n, e)
          THEN CallAuthenticate(r, q, TRUE, "reauthed", "reauth")
          ELSE /\ req' = [req EXCEPT ![r] = Settled(q, CatchLogged(e))]
               /\ UNCHANGED <<token, auth, preserve, unsafe, issued, flushed>>

\* authenticate(true).then: opts.headers.Authorization = 'Bearer ' + config.token,
\* a TypeError when opts has no headers; then requestAsync(opts) again
Resend(r) ==
    /\ req[r].pc = "reauthed"
    /\ req' = [req EXCEPT ![r] =
                 IF ~req[r].hdrs
                 THEN Settled(@, CatchLogged(Err("TypeError", 0, "-", "retry")))
                 ELSE [@ EXCEPT !.pc = "call",
                                !.hdrAuth = token,
                                !.sent = Append(@, WireToken(req[r]))]]
    /\ UNCHANGED <<token, auth, preserve, unsafe, issued, flushed>>

\* What a serializer of the log record sees of a property: its value when the
\* property is enumerable, nothing (0) when it is not.
Shown(enumerable, v) == IF enumerable THEN v ELSE 0

\* The data baseRequest hands to errors.throw with the error, for the request
\* whose closure is q: { config: self.client.config, options: opts }.
\* ClientConfig#token is defined non-enumerable; opts.auth.bearer is defined
\* enumerable by parseOptions, and opts.headers.Authorization is an ordinary
\* property written before the retry.
ErrorContext(q) ==
    [configToken |-> Shown(FALSE, token),
     optionsBearer |-> Shown(TRUE, q.bearer),
     optionsAuthorization |-> Shown(TRUE, q.hdrAuth)]

\* the client of a session that makes no request
RequestParked ==
    /\ token = 0
    /\ auth = FALSE
    /\ preserve = TRUE
    /\ unsafe = FALSE
    /\ issued = 1
    /\ flushed = 0
    /\ req = [r \in Reqs |-> NewRequest]

\* a client on which no watch session is made
WatchParked ==
    /\ started = FALSE
    /\ rv = 0
    /\ conns = <<>>
    /\ emitted = <<>>
    /\ written = 0
    /\ calls = 0
    /\ budget = Null
    /\ at = 0
    /\ chunk = <<>>

\* the API server has written nothing yet
ServerInit == wrote = [c \in 1..MaxConn |-> 0]

\* the caller attaches its listeners before it calls start()
ListenInit == listening = TRUE

\* ------------------------------------------------------------- watch()
NoWatchCall ==
    [pc |-> "idle", cb |-> FALSE, cbs |-> <<>>, session |-> FALSE, snap |-> 0,
     outcome |-> "pending", value |-> "-", error |-> NoError]

\* watch() has not been called; a WatchEmitter made directly has the options
\* it was given
WatchCallInit ==
    /\ wcall = NoWatchCall
    /\ wopts = 0
    /\ carried = <<>>

\* promise.nodeify(next): with a function, next is called with the error or
\* with the value once the promise settles, and the promise itself is returned
Nodeify(cb, cbs, e, value) ==
    IF cb THEN Append(cbs, [err |-> e, val |-> value]) ELSE cbs

\* watch(query, opts, next): this.get(query, opts, next) is the call r of baseRequest
WatchCall(r, cb) ==
    /\ wcall.pc = "idle"
    /\ baseRequest(r, "GET", FALSE)
    /\ wcall' = [wcall EXCEPT !.pc = "get", !.cb = cb]
    /\ UNCHANGED <<wopts, carried>>

\* The promise of get() settles. Its nodeify(next) calls next; then the handler
\* of watch() runs on a fulfilled promise: it reads response.metadata, a
\* TypeError when get() was fulfilled with undefined, and makes the WatchEmitter
\* from parseOptions(..., self.client.config); then the nodeify(next) of watch()
\* calls next again.
WatchThen(r, v) ==
    /\ wcall.pc = "get"
    /\ req[r].pc = "done"
    /\ LET q == req[r]
           c1 == Nodeify(wcall.cb, wcall.cbs, q.error, q.value)
           e == IF q.outcome = "rejected" THEN q.error
                ELSE IF q.value = "undefined" THEN Err("TypeError", 0, "-", "watch")
                ELSE NoError
       IN IF e = NoError
          THEN /\ wcall' = [wcall EXCEPT !.pc = "done", !.session = TRUE, !.snap = v,
                                         !.outcome = "resolved", !.value = "emitter",
                                         !.cbs = Nodeify(wcall.cb, c1, NoError, "emitter")]
               /\ rv' = v
               /\ wopts' = token
          ELSE /\ wcall' = [wcall EXCEPT !.pc = "done", !.outcome = "rejected", !.error = e,
                                         !.cbs = Nodeify(wcall.cb, c1, e, "-")]
               /\ UNCHANGED <<rv, wopts>>
    /\ UNCHANGED <<started, conns, emitted, written, calls, budget, at, chunk>>
    /\ UNCHANGED <<rvars, carried>>

\* the call of get() that watch() made is over, and its closure is dropped
Release(r) ==
    /\ wcall.pc = "done"
    /\ req[r].pc = "done"
    /\ wcall' = [wcall EXCEPT !.pc = "released"]
    /\ req' = [req EXCEPT ![r] = NewRequest]
    /\ UNCHANGED <<token, auth, preserve, unsafe, issued, flushed, wopts, carried>>

\* request(this.options) of every request start() opens in this step: it carries
\* options.auth.bearer of the WatchEmitter
Carry ==
    carried' = [c \in DOMAIN conns' |-> IF c \in DOMAIN carried THEN carried[c] ELSE wopts]

\* ------------------------------------------------------------------- paths
\* A string is the sequence of its pieces: names, and the separator "/".
Nil == <<"null">>
NoOut == [resource |-> Nil, url |-> Nil, qsNamespace |-> Nil]
Marker == <<"proxy", "/">>

StartsWith(s, m) == Len(s) >= Len(m) /\ SubSeq(s, 1, Len(m)) = m

\* String.prototype.replace(pattern, by) with a string pattern: the first
\* occurrence only
FirstAt(s, m) ==
    LET I == {i \in 1..(Len(s) - Len(m) + 1) : SubSeq(s, i, i + Len(m) - 1) = m}
    IN IF I = {} THEN 0 ELSE CHOOSE i \in I : \A j \in I : i <= j
Replace(s, m, by) ==
    LET i == FirstAt(s, m)
    IN IF i = 0 THEN s ELSE SubSeq(s, 1, i - 1) \o by \o SubSeq(s, i + Len(m), Len(s))

Lower(w) == IF w = "Pods" THEN "pods" ELSE w
toLowerCase(s) == [i \in DOMAIN s |-> Lower(s[i])]

\* Array.prototype.join('/'): null and undefined elements give ''
RECURSIVE Join(_)
Join(segs) ==
    IF segs = <<>> THEN <<>>
    ELSE LET h == IF Head(segs) = Nil THEN <<>> ELSE Head(segs)
         IN IF Len(segs) = 1 THEN h ELSE h \o <<"/">> \o Join(Tail(segs))

IsSegment(each) == each # Nil /\ each # <<>>

\* getPath joining every argument it is given
getPathUnfiltered(segs) == Join(segs)

\* getPath(...): all non-empty arguments joined by '/'
getPath(segs) == Join(SelectSeq(segs, IsSegment))

\* parseOptions, "Define request namespace"
Namespace(o) ==
    IF o.ns # "false"
    THEN IF o.namespace # <<"absent">> THEN o.namespace ELSE o.configns
    ELSE Nil

\* parseOptions, "Version compatibility handling"
VersionResource(o) ==
    IF o.version \in {<<"v1beta1">>, <<"v1beta2">>}
    THEN Replace(o.resource, <<"nodes">>, <<"minions">>)
    ELSE IF IsSegment(Namespace(o))
         THEN getPath(<<<<"namespaces">>, Namespace(o), toLowerCase(o.resource)>>)
         ELSE toLowerCase(o.resource)

\* the namespace put in the query string under every version
QueryNamespaceAlways(o) ==
    IF IsSegment(Namespace(o)) THEN Namespace(o) ELSE Nil

\* parseOptions, "Version compatibility handling": qs.namespace, set for
\* v1beta1 and v1beta2 when there is a namespace (Nil: not set)
QueryNamespace(o) ==
    IF o.version \in {<<"v1beta1">>, <<"v1beta2">>} /\ IsSegment(Namespace(o))
    THEN Namespace(o)
    ELSE Nil

\* parseOptions, "Set correct proxy endpoints"
SetProxyEndpoint(resource) ==
    IF StartsWith(resource, Marker)
    THEN Marker \o Replace(resource, Marker, <<>>)
    ELSE resource

\* parseOptions(options, config): the resource and the url of the request.
\* options.query is getPath(query, opts.child), as every caller builds it.
parseOptions(o) ==
    LET resource == SetProxyEndpoint(VersionResource(o))
        query == getPath(<<o.query, o.child>>)
    IN [resource |-> resource,
        url |-> getPath(<<o.host, o.prefix, o.version, resource, query>>),
        qsNamespace |-> QueryNamespace(o)]

\* The resources of the registry, and one a caller names in its options; the
\* versions with the prefix the Endpoint gives them.
Resources ==
    {<<"nodes">>, <<"Pods">>, <<"proxy", "/", "nodes">>, <<"proxy", "/", "proxy", "/", "nodes">>}
Apis ==
    {[version |-> <<"v1">>, prefix |-> <<"api">>],
     [version |-> <<"v1">>, prefix |-> <<"oapi">>],
     [version |-> <<"v1beta1">>, prefix |-> <<"api">>],
     [version |-> <<"extensions", "/", "v1beta1">>, prefix |-> <<"apis">>]}
PathInputs ==
    {[host |-> <<"https://host">>, resource |-> r, query |-> q, child |-> ch,
      ns |-> n, namespace |-> nsp, configns |-> cn,
      version |-> api.version, prefix |-> api.prefix] :
        r \in Resources, q \in {Nil, <<"name">>}, ch \in {Nil, <<"log">>},
        n \in {"absent", "false"}, nsp \in {<<"absent">>, Nil, <<"ns1">>},
        cn \in {Nil, <<"default">>}, api \in Apis}

PathInit == pin \in PathInputs /\ pout = NoOut
PathParked ==
    /\ pin = CHOOSE i \in PathInputs : TRUE
    /\ pout = NoOut

ParseOptions ==
    /\ pout = NoOut
    /\ pout' = parseOptions(pin)
    /\ UNCHANGED pin

\* ------------------------------------------------------- compound methods
\* How the promise of one call of baseRequest settles: fulfilled with the
\* response body, fulfilled with undefined (an error that was already marked
\* logged), or rejected.
Outcomes == {"body", "undefined", "rejected"}
HttpFailure == Err("HttpError", 403, "-", "call1")
TypeFailure(from) == Err("TypeError", 0, "-", from)

\* ------------------------------------------------------------------ scale
Increments == -2..2

NoScale ==
    [pc |-> "idle", given |-> FALSE, k |-> 0, prune |-> FALSE, before |-> 0, count |-> 0,
     outcome |-> "pending", result |-> 0, error |-> NoError]

ScaleInit == replicas \in 0..MaxReplicas /\ scall = NoScale
ScaleParked == replicas = 0 /\ scall = NoScale

\* `increment || 1`
Increment(given, k) == IF given /\ k # 0 THEN k ELSE 1

\* `var count = rc.spec.replicas + (increment || 1); if (count < 0) count = 0;`
Count(r, given, k) == IF r + Increment(given, k) < 0 THEN 0 ELSE r + Increment(given, k)

ScaleRejected(e) == [scall EXCEPT !.pc = "done", !.outcome = "rejected", !.error = e]

\* scale(query, increment, opts): self.get(query, opts)
ScaleCall(given, k, prune) ==
    /\ scall.pc = "idle"
    /\ scall' = [scall EXCEPT !.pc = "get", !.given = given, !.k = k, !.prune = prune]
    /\ UNCHANGED replicas

\* get() settles; the first handler computes the count and calls self.patch
ScaleGot(o) ==
    /\ scall.pc = "get"
    /\ scall' = CASE o = "body" ->
                       [scall EXCEPT !.pc = "patch", !.before = replicas,
                                     !.count = Count(replicas, scall.given, scall.k)]
                  [] o = "undefined" -> ScaleRejected(TypeFailure("scale"))
                  [] OTHER -> ScaleRejected(HttpFailure)
    /\ UNCHANGED replicas

\* patch() settles: the server has set spec.replicas when it answers with the
\* body; the second handler deletes the controller when `prune` is set and no
\* replica is left, otherwise scale is fulfilled with the patched controller
ScalePatched(o) ==
    /\ scall.pc = "patch"
    /\ replicas' = IF o = "body" THEN scall.count ELSE replicas
    /\ scall' = CASE o = "body" ->
                       IF scall.prune /\ scall.count = 0
                       THEN [scall EXCEPT !.pc = "delete"]
                       ELSE [scall EXCEPT !.pc = "done", !.outcome = "resolved",
                                          !.result = scall.count]
                  [] o = "undefined" -> ScaleRejected(TypeFailure("scale"))
                  [] OTHER -> ScaleRejected(HttpFailure)

\* delete() settles: scale is fulfilled with what delete() is fulfilled with
ScaleDeleted(o) ==
    /\ scall.pc = "delete"
    /\ scall' = IF o = "rejected"
                THEN ScaleRejected(HttpFailure)
                ELSE [scall EXCEPT !.pc = "done", !.outcome = "resolved", !.result = 0]
    /\ UNCHANGED replicas

\* --------------------------------------------------------------- evacuate
Pods == 1..MaxPods

NoEvacuate ==
    [pc |-> "idle", dels |-> [p \in Pods |-> "none"], patched |-> FALSE,
     outcome |-> "pending", value |-> "-", error |-> NoError]

EvacuateInit ==
    /\ node \in BOOLEAN
    /\ pods \in [Pods -> {"running", "absent"}]
    /\ ecall = NoEvacuate
EvacuateParked ==
    /\ node = FALSE
    /\ pods = [p \in Pods |-> "absent"]
    /\ ecall = NoEvacuate

EvacuateRejected(e) == [ecall EXCEPT !.pc = "done", !.outcome = "rejected", !.error = e]

\* evacuate(query, opts): this.patch(query, {spec: {unschedulable: true}}, opts)
EvacuateCall ==
    /\ ecall.pc = "idle"
    /\ ecall' = [ecall EXCEPT !.pc = "patch"]
    /\ UNCHANGED <<node, pods>>

\* patch() settles; .tap runs its handler only on a fulfilled promise: it reads
\* node.metadata.name and calls deletePods, which calls getPods
EvacuatePatched(o) ==
    /\ ecall.pc = "patch"
    /\ node' = IF o = "body" THEN TRUE ELSE node
    /\ ecall' = CASE o = "body" -> [ecall EXCEPT !.pc = "list", !.patched = TRUE]
                  [] o = "undefined" -> EvacuateRejected(TypeFailure("evacuate"))
                  [] OTHER -> EvacuateRejected(HttpFailure)
    /\ UNCHANGED pods

\* getPods() settles; .map calls pods.delete for every pod of the list at once,
\* and with an empty list deletePods, and with it evacuate, is fulfilled
EvacuateListed(o) ==
    /\ ecall.pc = "list"
    /\ ecall' = CASE o = "body" ->
                       IF \E p \in Pods : pods[p] = "running"
                       THEN [ecall EXCEPT !.pc = "deleting",
                                          !.dels = [p \in Pods |->
                                                      IF pods[p] = "running"
                                                      THEN "pending" ELSE "none"]]
                       ELSE [ecall EXCEPT !.pc = "done", !.outcome = "resolved",
                                          !.value = "node"]
                  [] o = "undefined" -> EvacuateRejected(TypeFailure("deletePods"))
                  [] OTHER -> EvacuateRejected(HttpFailure)
    /\ UNCHANGED <<node, pods>>

\* One pods.delete() settles. Promise.map is rejected with the first rejection,
\* whatever is still pending, and fulfilled when every call is fulfilled; .tap
\* then fulfils evacuate with the node. A call that settles after the rejection
\* changes the server all the same.
EvacuateDeleted(p, o) ==
    /\ p \in Pods
    /\ ecall.dels[p] = "pending"
    /\ pods' = IF o = "body" THEN [pods EXCEPT ![p] = "deleted"] ELSE pods
    /\ LET ds == [ecall.dels EXCEPT ![p] = IF o = "rejected" THEN "rejected" ELSE "fulfilled"]
           e == [ecall EXCEPT !.dels = ds]
       IN ecall' =
            IF ecall.pc # "deleting" THEN e
            ELSE IF o = "rejected"
            THEN [e EXCEPT !.pc = "done", !.outcome = "rejected", !.error = HttpFailure]
            ELSE IF \A x \in Pods : ds[x] \in {"none", "fulfilled"}
            THEN [e EXCEPT !.pc = "done", !.outcome = "resolved", !.value = "node"]
            ELSE e
    /\ UNCHANGED node

\* the operations of the client that a specification does not exercise
IdleInit == ListenInit /\ PathParked /\ WatchCallInit /\ ScaleParked /\ EvacuateParked

Init == WatchEmitterInit /\ RequestParked /\ ServerInit /\ IdleInit

\* ---------------------------------------------------------------- session
\* The life of one watch session: the caller's start() calls (never forced, as
\* the documentation of start demands), responses, transport errors, EOFs, and
\* ADDED frames, each arriving as one chunk.
LifeFrames == [type : {"ADDED"}, ver : 1..MaxVer]

Next ==
    \/ (\E n \in {Null} \cup 0..MaxRetry : CallerStart(n, FALSE)) /\ UNCHANGED <<rvars, evars>>
    \/ (\E c \in DOMAIN conns, status \in Statuses : OnResponse(c, status)) /\ UNCHANGED <<rvars, evars>>
    \/ (\E c \in DOMAIN conns, code \in Codes : OnError(c, code)) /\ UNCHANGED <<rvars, evars>>
    \/ (\E c \in DOMAIN conns, f \in LifeFrames : OnData(c, f, TRUE, 2)) /\ UNCHANGED <<rvars, evars>>
    \/ (\E c \in DOMAIN conns : OnEnd(c)) /\ UNCHANGED <<rvars, evars>>

Spec == Init /\ [][Next]_vars

\* ----------------------------------------------------------------- decoding
\* The data handler on every frame and every cut of the byte stream, chunks
\* that span two frames included, over a session that is started once and
\* reconnects once on EOF.
NextDecode ==
    \/ conns = <<>> /\ CallerStart(Null, FALSE) /\ UNCHANGED <<rvars, evars>>
    \/ (\E c \in DOMAIN conns : OnResponse(c, 200)) /\ UNCHANGED <<rvars, evars>>
    \/ (\E c \in DOMAIN conns, f \in Frames, more \in BOOLEAN, k \in 1..3 :
           OnData(c, f, more, k)) /\ UNCHANGED <<rvars, evars>>
    \/ (\E c \in DOMAIN conns : Len(conns) < 2 /\ OnEnd(c)) /\ UNCHANGED <<rvars, evars>>

SpecDecode == Init /\ [][NextDecode]_vars

\* ----------------------------------------------------------------- requests
\* The calls of baseRequest on one client: every client configuration, every
\* answer of the oAuth server and of the API server.
InitRequest == WatchParked /\ RequestInit /\ ServerInit /\ IdleInit

NextRequest ==
    \/ (\E r \in Reqs, method \in {"GET", "PATCH"}, headers \in BOOLEAN :
           baseRequest(r, method, headers)) /\ UNCHANGED <<wvars, evars>>
    \/ (\E r \in Reqs, reply \in AuthReplies : AuthReply(r, reply)) /\ UNCHANGED <<wvars, evars>>
    \/ (\E r \in Reqs : Send(r)) /\ UNCHANGED <<wvars, evars>>
    \/ (\E r \in Reqs, reply \in ApiReplies : ApiReply(r, reply)) /\ UNCHANGED <<wvars, evars>>
    \/ (\E r \in Reqs : Resend(r)) /\ UNCHANGED <<wvars, evars>>

SpecRequest == InitRequest /\ [][NextRequest]_vars

\* The handlers of request r: request calls its callback once, with an error
\* or with a response, and the handlers of a settled promise are run.
Progress(r) ==
    \/ (\E reply \in AuthReplies : AuthReply(r, reply)) /\ UNCHANGED <<wvars, evars>>
    \/ Send(r) /\ UNCHANGED <<wvars, evars>>
    \/ (\E reply \in ApiReplies : ApiReply(r, reply)) /\ UNCHANGED <<wvars, evars>>
    \/ Resend(r) /\ UNCHANGED <<wvars, evars>>

\* The calls of baseRequest against servers that answer every request sent to
\* them, with a response or with a transport error.
SpecSettle ==
    InitRequest /\ [][NextRequest]_vars /\ \A r \in Reqs : WF_vars(Progress(r))

\* Two requests made through one client that has credentials: their handlers
\* interleave freely, and nothing serializes the two authentications.
Pair == {1, 2}

PairInit ==
    /\ token \in {0, 1}
    /\ auth = TRUE
    /\ preserve \in BOOLEAN
    /\ unsafe = FALSE
    /\ issued = 1
    /\ flushed = 0
    /\ req = [r \in Pair |-> NewRequest]

InitPair == WatchParked /\ PairInit /\ ServerInit /\ IdleInit

NextPair ==
    \/ (\E r \in Pair, method \in {"GET", "PATCH"} :
           baseRequest(r, method, FALSE)) /\ UNCHANGED <<wvars, evars>>
    \/ (\E r \in Pair, reply \in AuthReplies : AuthReply(r, reply)) /\ UNCHANGED <<wvars, evars>>
    \/ (\E r \in Pair : Send(r)) /\ UNCHANGED <<wvars, evars>>
    \/ (\E r \in Pair, reply \in ApiReplies : ApiReply(r, reply)) /\ UNCHANGED <<wvars, evars>>
    \/ (\E r \in Pair : Resend(r)) /\ UNCHANGED <<wvars, evars>>

SpecPair == InitPair /\ [][NextPair]_vars

\* ----------------------------------------------------------------- delivery
\* A watch against a server that holds the events 1..MaxVer: on each connection
\* it writes, in order, the events after the resourceVersion of the request.
\* The session is started with the default, unlimited, retry budget; the
\* connection may end or time out at any moment, and the transport cuts the
\* stream into chunks anywhere.
LogFrame(v) == [type |-> "ADDED", ver |-> v]

\* the version of the last event the server has written on connection c
Cursor(c) == conns[c].qsrv + wrote[c]

\* the events the server has still to write on the connections other than c
\* that are open
RECURSIVE Owed(_, _)
Owed(c, n) ==
    IF n = 0 THEN 0
    ELSE Owed(c, n - 1)
         + (IF n # c /\ conns[n].state = "open" THEN MaxVer - Cursor(n) ELSE 0)

\* connection c may be lost only while the bounds leave room for a new
\* connection and for every event the server then has to write
Room(c) ==
    /\ Len(conns) < MaxConn
    /\ written + Owed(c, Len(conns)) + (MaxVer - rv) <= MaxFrames

\* the next chunk on c: the rest of the event being delivered, alone or
\* followed by the first k pieces of the next event of the log
OnLogData(c, more, k) ==
    /\ c \in DOMAIN conns
    /\ more => Cursor(c) < MaxVer
    /\ OnData(c, LogFrame(Cursor(c) + 1), more, k)
    /\ wrote' = [wrote EXCEPT ![c] = IF more THEN @ + 1 ELSE @]
    /\ UNCHANGED <<rvars, xvars>>

Delivery == \E c \in DOMAIN conns, more \in BOOLEAN, k \in 1..3 : OnLogData(c, more, k)

Answer == (\E c \in DOMAIN conns : OnResponse(c, 200)) /\ UNCHANGED <<rvars, evars>>

NextDeliver ==
    \/ conns = <<>> /\ CallerStart(Null, FALSE) /\ UNCHANGED <<rvars, evars>>
    \/ Answer
    \/ Delivery
    \/ (\E c \in DOMAIN conns : Room(c) /\ OnError(c, "ESOCKETTIMEDOUT"))
         /\ UNCHANGED <<rvars, evars>>
    \/ (\E c \in DOMAIN conns : Room(c) /\ OnEnd(c)) /\ UNCHANGED <<rvars, evars>>

\* The server answers a request and writes the events it holds, and the
\* transport delivers what has been written; a connection need never be lost.
SpecDeliver ==
    Init /\ [][NextDeliver]_vars /\ WF_vars(Answer) /\ WF_vars(Delivery)

\* The same server and transport, with connections that are lost at any
\* moment, in the middle of a frame included, by EOF or by a socket timeout.
NextCut ==
    \/ conns = <<>> /\ CallerStart(Null, FALSE) /\ UNCHANGED <<rvars, evars>>
    \/ Answer
    \/ Delivery
    \/ (\E c \in DOMAIN conns, code \in {"ESOCKETTIMEDOUT", "ETIMEDOUT"} : OnError(c, code))
         /\ UNCHANGED <<rvars, evars>>
    \/ (\E c \in DOMAIN conns : OnEnd(c)) /\ UNCHANGED <<rvars, evars>>

SpecCut == Init /\ [][NextCut]_vars

\* ----------------------------------------------------------------- stopping
\* The caller stops listening: removeAllListeners() of EventEmitter, which the
\* WatchEmitter inherits, takes the caller's listeners off the WatchEmitter. The
\* handlers of start() are listeners of the request, not of the WatchEmitter.
RemoveListeners ==
    /\ listening
    /\ started
    /\ listening' = FALSE
    /\ UNCHANGED <<wvars, rvars, wrote, pvars, cvars, ovars>>

\* A session started with the default budget, whose caller stops listening at
\* some point, under EOFs and socket timeouts.
NextStop ==
    \/ conns = <<>> /\ CallerStart(Null, FALSE) /\ UNCHANGED <<rvars, evars>>
    \/ (\E c \in DOMAIN conns, status \in Statuses : OnResponse(c, status))
         /\ UNCHANGED <<rvars, evars>>
    \/ (\E c \in DOMAIN conns, f \in LifeFrames : OnData(c, f, TRUE, 2))
         /\ UNCHANGED <<rvars, evars>>
    \/ (\E c \in DOMAIN conns, code \in {"ESOCKETTIMEDOUT", "ETIMEDOUT"} : OnError(c, code))
         /\ UNCHANGED <<rvars, evars>>
    \/ (\E c \in DOMAIN conns : OnEnd(c)) /\ UNCHANGED <<rvars, evars>>
    \/ RemoveListeners

SpecStop == Init /\ [][NextStop]_vars

\* ------------------------------------------------------------------ watch()
\* One call of watch() on a client of any configuration, the session it
\* resolves to (started, answered, timed out, ended), and one later request
\* on the same client.
InitWatch == WatchParked /\ RequestInit /\ ServerInit /\ IdleInit

Rest == <<wrote, listening, pvars, ovars>>

NextWatch ==
    \/ (\E cb \in BOOLEAN : WatchCall(1, cb)) /\ UNCHANGED <<wvars, Rest>>
    \/ (\E reply \in AuthReplies : AuthReply(1, reply)) /\ UNCHANGED <<wvars, cvars, Rest>>
    \/ Send(1) /\ UNCHANGED <<wvars, cvars, Rest>>
    \/ (\E reply \in ApiReplies : ApiReply(1, reply)) /\ UNCHANGED <<wvars, cvars, Rest>>
    \/ Resend(1) /\ UNCHANGED <<wvars, cvars, Rest>>
    \/ (\E v \in 0..MaxVer : WatchThen(1, v)) /\ UNCHANGED Rest
    \/ Release(1) /\ UNCHANGED <<wvars, Rest>>
    \/ (wcall.pc = "released" /\ \E headers \in BOOLEAN : baseRequest(1, "GET", headers))
         /\ UNCHANGED <<wvars, cvars, Rest>>
    \/ (wcall.session /\ conns = <<>> /\ CallerStart(Null, FALSE) /\ Carry)
         /\ UNCHANGED <<rvars, wcall, wopts, Rest>>
    \/ (\E c \in DOMAIN conns : OnResponse(c, 200)) /\ UNCHANGED <<rvars, cvars, Rest>>
    \/ (\E c \in DOMAIN conns : OnError(c, "ESOCKETTIMEDOUT") /\ Carry)
         /\ UNCHANGED <<rvars, wcall, wopts, Rest>>
    \/ (\E c \in DOMAIN conns : OnEnd(c) /\ Carry) /\ UNCHANGED <<rvars, wcall, wopts, Rest>>

SpecWatch == InitWatch /\ [][NextWatch]_vars

\* ---------------------------------------------------------------- compound
\* One call of scale on a controller no one else writes, with every increment,
\* given or omitted, and every way its requests settle.
Parked == WatchParked /\ RequestParked /\ ServerInit /\ ListenInit /\ PathParked /\ WatchCallInit

InitScale == Parked /\ ScaleInit /\ EvacuateParked

Others == <<wvars, rvars, wrote, listening, pvars, cvars>>

NextScale ==
    \/ (\E given \in BOOLEAN, k \in Increments, prune \in BOOLEAN :
           (given \/ k = 0) /\ ScaleCall(given, k, prune)) /\ UNCHANGED <<Others, nvars>>
    \/ (\E o \in Outcomes : ScaleGot(o)) /\ UNCHANGED <<Others, nvars>>
    \/ (\E o \in Outcomes : ScalePatched(o)) /\ UNCHANGED <<Others, nvars>>
    \/ (\E o \in Outcomes : ScaleDeleted(o)) /\ UNCHANGED <<Others, nvars>>

SpecScale == InitScale /\ [][NextScale]_vars

\* One call of evacuate on a node with any pods, and every way its requests
\* settle.
InitEvacuate == Parked /\ ScaleParked /\ EvacuateInit

NextEvacuate ==
    \/ EvacuateCall /\ UNCHANGED <<Others, svars>>
    \/ (\E o \in Outcomes : EvacuatePatched(o)) /\ UNCHANGED <<Others, svars>>
    \/ (\E o \in Outcomes : EvacuateListed(o)) /\ UNCHANGED <<Others, svars>>
    \/ (\E p \in Pods, o \in Outcomes : EvacuateDeleted(p, o)) /\ UNCHANGED <<Others, svars>>

SpecEvacuate == InitEvacuate /\ [][NextEvacuate]_vars

\* -------------------------------------------------------------------- paths
\* parseOptions on every resource, query, child, namespace and API version
InitPath ==
    /\ WatchParked /\ RequestParked /\ ServerInit /\ ListenInit /\ WatchCallInit
    /\ ScaleParked /\ EvacuateParked
    /\ PathInit

NextPath == ParseOptions /\ UNCHANGED <<wvars, rvars, wrote, listening, cvars, ovars>>

SpecPath == InitPath /\ [][NextPath]_vars

\* ------------------------------------------------- properties of the session
Live == {c \in DOMAIN conns : conns[c].state = "open"}
TimedOut == {c \in DOMAIN conns : conns[c].state = "timedout"}
Min(a, b) == IF a < b THEN a ELSE b
Last(cs) == cs[Len(cs)]

\* C1: a watch session has at most one live streaming connection at any time,
\* across start(), timeout reconnects and EOF reconnects.
OneLiveConnection == Cardinality(Live) <= 1

\* C2: the tracked resourceVersion never moves backward.
VersionNeverBackward == [][rv' >= rv]_vars

\* A session started with a numeric budget that has seen nothing but socket
\* timeouts: no EOF, no other transport error, no error status.
TimeoutRun ==
    /\ conns # <<>>
    /\ budget # Null
    /\ \A c \in DOMAIN conns :
          /\ conns[c].state \in {"open", "timedout"}
          /\ conns[c].response \in {"none", "ok"}

\* the handler that ran in this step was the error handler of c, on a timeout
TimeoutStep(c) ==
    /\ c \in DOMAIN conns
    /\ at' = c
    /\ conns[c].state = "open"
    /\ conns'[c].state = "timedout"

\* C6: after start(n), consecutive socket timeouts give a reconnect for each of
\* the first n and an 'error' event, the only one, for the (n+1)-th, after which
\* nothing is connected; with n = 0 the first timeout is already emitted.
RetryBudgetExact ==
    [][TimeoutRun' =>
         /\ Len(conns') = 1 + Min(Cardinality(TimedOut'), budget')
         /\ \A c \in DOMAIN conns :
               TimeoutStep(c) =>
                 IF Cardinality(TimedOut') = budget' + 1
                 THEN /\ Len(emitted') = 1
                      /\ emitted'[1].ev = "error"
                      /\ IsTimeout(emitted'[1].code)
                      /\ Live' = {}
                 ELSE /\ emitted' = <<>>
                      /\ Live' = {Len(conns')}
                      /\ Len(conns') = Len(conns) + 1]_vars

BudgetSpent ==
    /\ TimeoutRun
    /\ budget = 2
    /\ Cardinality(TimedOut) = 3
    /\ Len(emitted) = 1
    /\ emitted[1].ev = "error"

\* C7: start() on a session that is already started, called without force,
\* changes nothing: two start() calls open one connection, and each frame the
\* server writes is emitted once.
SecondStartNoOp ==
    [][/\ (calls' = calls + 1 /\ started) =>
            /\ conns' = conns
            /\ started' = started
            /\ rv' = rv
            /\ emitted' = <<>>
       /\ (calls' = calls + 1 /\ ~started) => Len(conns') = 1
       /\ (calls = 1 /\ at = 0 /\ calls' = 2) => (Len(conns') = 1 /\ Live' = {1})
       /\ written' = written + 1 => Len(emitted') = 1]_vars

StartedTwice ==
    /\ calls = 2
    /\ Len(conns) = 1
    /\ written = 1
    /\ Len(emitted) = 1
    /\ emitted[1].ev = "create"

\* the handler that ran in this step was the end handler of c
EndStep(c) ==
    /\ c \in DOMAIN conns
    /\ at' = c
    /\ conns[c].state # "ended"
    /\ conns'[c].state = "ended"

\* C8: on EOF the session opens a new connection whatever retry budget it was
\* started with; the new request carries the tracked resourceVersion, and the
\* frames that arrive on it are emitted on the same WatchEmitter.
EofReconnects ==
    [][\A c \in DOMAIN conns :
         /\ EndStep(c) =>
               /\ Len(conns') = Len(conns) + 1
               /\ Last(conns').state = "open"
               /\ Last(conns').qsrv = rv
               /\ started'
         /\ (at' = c /\ chunk' # <<>> /\ \E d \in 1..(c - 1) : conns[d].state = "ended") =>
               /\ Len(emitted') = 1
               /\ emitted'[1].ev = "create"
               /\ emitted'[1].n = chunk'[2].v]_vars

EventAfterEof ==
    /\ budget = 0
    /\ Len(conns) = 2
    /\ conns[1].state = "ended"
    /\ conns[2].state = "open"
    /\ conns[2].qsrv = MaxVer
    /\ at = 2
    /\ Len(emitted) = 1
    /\ emitted[1].ev = "create"

\* C9: between construction and the first start() no connection is open and no
\* event is emitted.
IdleUntilStarted ==
    calls = 0 => (conns = <<>> /\ emitted = <<>> /\ ~started /\ at = 0)

NotYetStarted == calls = 0 /\ ~started /\ conns = <<>> /\ rv = MaxVer

\* C21: once the caller has removed its listeners the session is stopped: no
\* EOF and no socket timeout opens a further connection.
StoppedOpensNothing == [][~listening => Len(conns') = Len(conns)]_vars

\* C29: the response handler of a connection emits exactly one event: 'response'
\* with the response when its status is below 400, 'error' when it is 400 or
\* above, never both.
ResponseOrError ==
    [][\A c \in DOMAIN conns :
          (conns[c].response = "none" /\ conns'[c].response \in {"ok", "error"})
          => /\ Len(emitted') = 1
             /\ emitted'[1].n \in Statuses
             /\ emitted'[1].ev = (IF emitted'[1].n < 400 THEN "response" ELSE "error")
             /\ (conns'[c].response = "ok") = (emitted'[1].n < 400)]_vars

\* a connection answered with 400 has emitted 'error' alone
Answered400 ==
    \E c \in DOMAIN conns :
        at = c /\ conns[c].response = "error" /\ emitted = <<Ev("error", 400, "HttpError")>>

\* ------------------------------------------------ properties of the decoding
\* the data handler of c ran in this step and its buffer, with the chunk, was
\* one complete frame of type t
Decoded(c, t) ==
    /\ c \in DOMAIN conns
    /\ at' = c
    /\ chunk' # <<>>
    /\ Len(conns[c].buffer \o chunk') = 2
    /\ (conns[c].buffer \o chunk')[1] = TypeSym(t)
    /\ (conns[c].buffer \o chunk')[2].k = "obj"

\* C10: a completely decoded frame of type ADDED, MODIFIED or DELETED produces
\* exactly one event, create, update or delete, carrying the object of the
\* frame, and no other event.
FrameToEvent ==
    [][\A c \in DOMAIN conns :
         /\ Decoded(c, "ADDED") =>
               emitted' = <<Ev("create", (conns[c].buffer \o chunk')[2].v, "-")>>
         /\ Decoded(c, "MODIFIED") =>
               emitted' = <<Ev("update", (conns[c].buffer \o chunk')[2].v, "-")>>
         /\ Decoded(c, "DELETED") =>
               emitted' = <<Ev("delete", (conns[c].buffer \o chunk')[2].v, "-")>>]_vars

\* a DELETED frame that arrived in two chunks has just been emitted
DeleteDecoded ==
    /\ at > 0
    /\ Len(chunk) = 1
    /\ chunk[1].k = "obj"
    /\ emitted = <<Ev("delete", MaxVer, "-")>>

\* C11: a completely decoded frame of any other type makes the session emit
\* exactly one 'error' event carrying the payload of the frame, and leaves the
\* tracked resourceVersion as it was.
OtherTypeEmitsError ==
    [][\A c \in DOMAIN conns :
         Decoded(c, "ERROR") =>
            /\ Len(emitted') = 1
            /\ emitted'[1].ev = "error"
            /\ emitted'[1].n = (conns[c].buffer \o chunk')[2].v
            /\ rv' = rv]_vars

\* the data handler of c ran in this step on a chunk that left its buffer
\* short of, or beyond, one complete frame
Undecoded(c) ==
    /\ c \in DOMAIN conns
    /\ at' = c
    /\ chunk' # <<>>
    /\ ~Parses(conns[c].buffer \o chunk')

\* C12: a chunk with which the buffer does not parse emits no event, 'error'
\* included, keeps the connection open and stays in the buffer.
PartialChunkBuffered ==
    [][\A c \in DOMAIN conns :
         Undecoded(c) =>
            /\ emitted' = <<>>
            /\ conns'[c].state = "open"
            /\ conns'[c].buffer = conns[c].buffer \o chunk'
            /\ Len(conns') = Len(conns)
            /\ started' = started
            /\ rv' = rv]_vars

HalfFrameBuffered ==
    /\ at > 0
    /\ chunk = <<TypeSym("MODIFIED")>>
    /\ conns[at].state = "open"
    /\ conns[at].buffer = chunk
    /\ emitted = <<>>

\* C13: after an event is processed the tracked resourceVersion is the one in
\* the metadata of its object when there is one, and is unchanged otherwise
\* (no metadata, or no resourceVersion in it); so after v1 and then v2 > v1 it
\* is v2.
VersionFollowsEvent ==
    [][\A c \in DOMAIN conns : \A t \in {"ADDED", "MODIFIED", "DELETED"} :
         Decoded(c, t) =>
            rv' = IF (conns[c].buffer \o chunk')[2].v > 0
                  THEN (conns[c].buffer \o chunk')[2].v
                  ELSE rv]_vars

VersionAdvanced ==
    /\ at > 0
    /\ Len(emitted) = 1
    /\ emitted[1].ev = "update"
    /\ emitted[1].n = rv
    /\ conns[at].qsrv > 0
    /\ conns[at].qsrv < rv

\* ------------------------------------------------ properties of the requests
\* the error of the n-th call of request r (NoError when it succeeded)
CallError(r, n) == GetError(req[r].replies[n], IF n = 1 THEN "call1" ELSE "call2")

\* request r is rejected with error e, marked as logged on its way out
RejectedWith(r, e) ==
    /\ req[r].pc = "done"
    /\ req[r].outcome = "rejected"
    /\ req[r].error = [e EXCEPT !.logged = TRUE]

\* C3: when the first call failed with 401 and the re-authentication obtained
\* a fresh token, the request is sent a second time and that call carries the
\* fresh token, which differs from the one of the first call; when the second
\* call succeeds the caller sees the success and no error.
RetryCarriesFreshToken ==
    \A r \in Reqs :
        (/\ req[r].pc = "done"
         /\ req[r].replies # <<>>
         /\ req[r].replies[1].status = 401
         /\ req[r].fresh \in 1..issued) =>
            /\ Len(req[r].sent) = 2
            /\ req[r].sent[2] = req[r].fresh
            /\ req[r].sent[2] # req[r].sent[1]
            /\ (Len(req[r].replies) = 2 /\ CallError(r, 2) = NoError) =>
                  (req[r].outcome = "resolved" /\ req[r].value = "body")

\* C4: a request makes at most two network calls; when the second call fails,
\* with 401 or anything else, the caller gets that error and no third call is
\* made.
AtMostTwoCalls ==
    \A r \in Reqs :
        /\ Len(req[r].sent) <= 2
        /\ Len(req[r].replies) <= Len(req[r].sent)
        /\ (Len(req[r].replies) = 2 /\ CallError(r, 2) # NoError) =>
              RejectedWith(r, CallError(r, 2))

SecondCallFailed ==
    \E r \in Reqs :
        /\ Len(req[r].sent) = 2
        /\ Len(req[r].replies) = 2
        /\ req[r].replies[2].status = 401
        /\ req[r].outcome = "rejected"

\* C5: when the first call fails with anything but 401, the request makes that
\* one network call only, leaves the token and the credentials as they are, and
\* the caller gets that same error.
OtherErrorsNotRetried ==
    [][\A r \in Reqs :
         (/\ req[r].replies = <<>>
          /\ Len(req'[r].replies) = 1
          /\ GetError(req'[r].replies[1], "call1") # NoError
          /\ req'[r].replies[1].status # 401) =>
             /\ token' = token
             /\ auth' = auth
             /\ req'[r].flushes = 0
             /\ Len(req'[r].sent) = 1
             /\ req'[r].pc = "done"
             /\ req'[r].outcome = "rejected"
             /\ req'[r].error =
                   [GetError(req'[r].replies[1], "call1") EXCEPT !.logged = TRUE]]_vars

ForbiddenNotRetried ==
    \E r \in Reqs :
        /\ req[r].pc = "done"
        /\ Len(req[r].sent) = 1
        /\ req[r].replies = <<Reply(403, "-", NoLocation)>>
        /\ req[r].outcome = "rejected"
        /\ req[r].error.status = 403
        /\ token = 2

\* ------------------------------------------------------ properties of auth
\* request r puts a call on the wire in this step
Calls(r) == Len(req'[r].sent) = Len(req[r].sent) + 1

\* request r calls authenticate() in this step: at the start of baseRequest
\* without flush, or with flush on the 401 of its first call
CallsAuthenticate(r) == req[r].pc = "idle" /\ req'[r].pc # "idle"
CallsAuthenticateFlush(r) == req'[r].flushes = req[r].flushes + 1

\* C14: a token that has been flushed is not carried by any later request, and
\* is not the token of config when a later authenticate() resolves, until an
\* authentication exchange has succeeded.
FlushedTokenNotCarried ==
    [][\A r \in Reqs :
         /\ Calls(r) => (flushed' = 0 \/ Last(req'[r].sent) # flushed')
         /\ (req'[r].pc \in {"authed", "reauthed"} /\ req[r].pc # req'[r].pc) =>
               (flushed' = 0 \/ token' # flushed')]_vars

\* C15: when an exchange is needed (credentials, no token) and the host is
\* plain http without allowUnsafe, authenticate fails with an error, no
\* exchange and no call is started, and the token stays null.
InsecureHostRefused ==
    [][\A r \in Reqs :
         ((CallsAuthenticate(r) \/ CallsAuthenticateFlush(r)) /\ auth /\ unsafe /\ token' = 0) =>
            /\ req'[r].pc = "done"
            /\ req'[r].outcome = "rejected"
            /\ req'[r].error.kind = "ClientError"
            /\ req'[r].exchanges = req[r].exchanges
            /\ req'[r].sent = req[r].sent
            /\ auth' = auth]_vars

RefusedOverHttp ==
    \E r \in Reqs :
        /\ unsafe
        /\ auth
        /\ token = 0
        /\ req[r].pc = "done"
        /\ req[r].error.kind = "ClientError"
        /\ req[r].exchanges = 0
        /\ req[r].sent = <<>>

\* C16: an exchange that fails (transport error, status of 400 or more, no
\* token in the Location header) leaves config.token as it was; only an
\* exchange that succeeds writes a token.
FailedExchangeKeepsToken ==
    [][/\ \A r \in Reqs :
            (req[r].authError = NoError /\ req'[r].authError # NoError) => token' = token
       /\ (token' # token /\ token' # 0) =>
            \E r \in Reqs :
                /\ req[r].pc \in {"auth", "reauth"}
                /\ req'[r].pc \in {"authed", "reauthed"}
                /\ req'[r].authError = NoError
                /\ token' \in {issued', NotAToken}]_vars

ExchangeFailedTokenKept ==
    \E r \in Reqs :
        /\ req[r].authError.kind = "TokenParseError"
        /\ req[r].flushes = 1
        /\ flushed = 1
        /\ token = 0

\* C17: when the exchange fails during a request, at the start or after a 401,
\* the caller is rejected with that error; the request is never fulfilled.
AuthFailureRejects ==
    \A r \in Reqs :
        req[r].authError # NoError =>
            /\ req[r].outcome = "rejected"
            /\ req[r].error = [req[r].authError EXCEPT !.logged = TRUE]

Configured == auth \/ (~preserve /\ \E r \in Reqs : req[r].exchanges > 0)

\* C19: after a flush, authenticate() makes a fresh exchange whenever the
\* client was given credentials, also when preserveAuth is false and an
\* exchange has taken place before.
FlushForcesExchange ==
    [][\A r \in Reqs :
         (CallsAuthenticateFlush(r) /\ Configured /\ ~unsafe) =>
            /\ req'[r].exchanges = req[r].exchanges + 1
            /\ req'[r].pc = "reauth"]_vars

\* the last catch of baseRequest has logged and thrown the error of request r
LoggedByBaseRequest(r) ==
    /\ req[r].pc = "done"
    /\ req[r].outcome = "rejected"
    /\ req[r].error.from \in {"call1", "call2", "retry"}

\* C26: the context logged with an error that an endpoint request propagates
\* holds no bearer token value.
ContextHidesToken ==
    \A r \in Reqs :
        LoggedByBaseRequest(r)
        => LET c == ErrorContext(req[r])
           IN c.configToken = 0 /\ c.optionsBearer = 0 /\ c.optionsAuthorization = 0

\* --------------------------------------------------- properties of watch()
\* C22: the request a reconnect opens carries the client's token as it is at
\* the time of the reconnect.
ReconnectCarriesCurrentToken ==
    [][(conns # <<>> /\ Len(conns') > Len(conns) /\ token \in 1..issued)
          => carried'[Len(conns')] = token]_vars

\* C23: a callback given to watch() is called exactly once: with the
\* WatchEmitter as second parameter when the call succeeds, with the error as
\* first parameter when it fails.
CallbackOnce ==
    (wcall.pc \in {"done", "released"} /\ wcall.cb)
    => /\ Len(wcall.cbs) = 1
       /\ wcall.outcome = "resolved" => wcall.cbs[1] = [err |-> NoError, val |-> "emitter"]
       /\ wcall.outcome = "rejected" => wcall.cbs[1].err = wcall.error

\* how the call of get() made by watch() failed, if it did
GetFailure(q) ==
    IF q.outcome = "rejected" THEN q.error
    ELSE IF q.authError # NoError THEN q.authError
    ELSE NoError

\* C30: watch() makes the session from the result of its one GET, the first
\* streaming request carries the snapshot's resourceVersion, and when the GET
\* fails no session is made and the caller gets the error.
WatchFromSnapshot ==
    [][/\ (wcall.pc = "get" /\ wcall'.pc = "done")
          => IF GetFailure(req[1]) = NoError
             THEN /\ wcall'.session /\ wcall'.outcome = "resolved"
                  /\ req[1].value = "body" /\ Len(req[1].sent) >= 1
                  /\ rv' = wcall'.snap
             ELSE /\ ~wcall'.session
                  /\ wcall'.outcome = "rejected"
                  /\ [wcall'.error EXCEPT !.logged = FALSE]
                        = [GetFailure(req[1]) EXCEPT !.logged = FALSE]
       /\ (conns = <<>> /\ conns' # <<>>)
          => wcall.session /\ conns'[1].qsrv = wcall.snap]_vars

\* ------------------------------------------- properties of compound methods
\* C27: scale(name, k) without `prune` is fulfilled with the controller at
\* max(0, r + k) replicas, r being the count before the call and k the
\* increment given, 1 when none is given.
ScaleAddsIncrement ==
    (scall.pc = "done" /\ scall.outcome = "resolved" /\ ~scall.prune)
    => LET k == IF scall.given THEN scall.k ELSE 1
           want == IF scall.before + k < 0 THEN 0 ELSE scall.before + k
       IN scall.result = want /\ replicas = want

\* C28: evacuate deletes pods only after the node is patched and only when the
\* patch succeeded, settles only when every deletion has settled, and is
\* fulfilled with the node.
EvacuateOrdered ==
    /\ (\E p \in Pods : ecall.dels[p] # "none" \/ pods[p] = "deleted")
       => (node /\ ecall.patched)
    /\ ecall.pc = "done" => \A p \in Pods : ecall.dels[p] # "pending"
    /\ ecall.outcome = "resolved" => ecall.value = "node"

\* -------------------------------------------------- properties of delivery
\* the last handler run emitted the event of version v
Emitted(v) == \E i \in DOMAIN emitted : emitted[i].ev = "create" /\ emitted[i].n = v

\* C20: every event the server holds with a version after the tracked
\* resourceVersion of a started session is eventually emitted, whatever EOFs
\* and socket timeouts occur and however the stream is cut into chunks.
AtLeastOnce == \A v \in 1..MaxVer : (started /\ v > rv) ~> Emitted(v)

\* ---------------------------------------------------- properties of paths
NoEmptySegment(s) ==
    /\ s # <<>>
    /\ s[1] # "/"
    /\ s[Len(s)] # "/"
    /\ \A i \in 1..(Len(s) - 1) : ~(s[i] = "/" /\ s[i + 1] = "/")

\* C24: the url parseOptions builds has no empty segment: no two adjacent '/'
\* and no trailing '/', for every resource, query, child, namespace, version
\* and prefix.
PathHasNoEmptySegment == pout # NoOut => NoEmptySegment(pout.url)

\* a url built from a null query, a null child and no namespace
NullsOmitted ==
    /\ pout # NoOut
    /\ pin.query = Nil /\ pin.child = Nil /\ pin.ns = "false"
    /\ pout.url = <<"https://host", "/", "api", "/", "v1", "/", "nodes">>

\* C25: the resource parseOptions leaves for a resource that begins with the
\* marker 'proxy/' begins with the marker exactly once, and normalizing it
\* again returns it unchanged.
ProxyMarkerOnce ==
    (pout # NoOut /\ StartsWith(VersionResource(pin), Marker))
    => /\ StartsWith(pout.resource, Marker)
       /\ ~StartsWith(SubSeq(pout.resource, 3, Len(pout.resource)), Marker)
       /\ SetProxyEndpoint(pout.resource) = pout.resource

\* --------------------------------------------- properties of the retry budget
\* the handler that ran in this step was the error handler of c, on an error
\* that is not a timeout
OtherErrorStep(c) ==
    /\ c \in DOMAIN conns
    /\ at' = c
    /\ conns[c].state = "open"
    /\ conns'[c].state = "broken"

\* C31: in a session started without a retryCount every socket timeout opens
\* a new connection and none is emitted as 'error', however many timeouts
\* came before it.
UnlimitedAlwaysReconnects ==
    [][budget = Null =>
         \A c \in DOMAIN conns :
            TimeoutStep(c) =>
               /\ emitted' = <<>>
               /\ Len(conns') = Len(conns) + 1
               /\ Last(conns').state = "open"
               /\ Last(conns').retry = Null]_vars

\* two timeouts in a row in a session without a budget, a third connection open
TwoTimeoutsNoBudget ==
    /\ budget = Null
    /\ Len(conns) = 3
    /\ conns[1].state = "timedout"
    /\ conns[2].state = "timedout"
    /\ conns[3].state = "open"
    /\ at = 2
    /\ emitted = <<>>

\* C32: a transport error that is not a timeout is emitted as exactly one
\* 'error' event and no connection is opened for it, whatever budget the
\* session has: neither by the error handler nor, afterwards, by another
\* handler of the connection that failed.
OtherErrorNoReconnect ==
    [][\A c \in DOMAIN conns :
          /\ OtherErrorStep(c) =>
                /\ Len(emitted') = 1
                /\ emitted'[1].ev = "error"
                /\ ~IsTimeout(emitted'[1].code)
                /\ Len(conns') = Len(conns)
          /\ (conns[c].state = "broken" /\ at' = c) => Len(conns') = Len(conns)]_vars

\* C38: the retry bound given to start(n) holds for the whole session: an EOF
\* reconnect hands the budget that is left to the new connection, and a
\* timeout reconnects only while budget is left and uses one unit of it, so
\* that no more than n timeouts reconnect.
RetryBoundHolds ==
    [][budget # Null =>
         \A c \in DOMAIN conns :
            /\ (EndStep(c) /\ Len(conns') > Len(conns))
                  => Last(conns').retry = conns[c].retry
            /\ (TimeoutStep(c) /\ Len(conns') > Len(conns))
                  => /\ conns[c].retry > 0
                     /\ Last(conns').retry = conns[c].retry - 1]_vars

\* ------------------------------------------------- properties of the buffer
\* C33: a frame that arrives in two chunks is buffered until it is complete:
\* the first chunk emits nothing and stays in the buffer, the last one emits
\* exactly one event and leaves the buffer empty.
SplitFrameDecodes ==
    [][\A c \in DOMAIN conns :
          (at' = c /\ Len(chunk') = 1) =>
             /\ (conns[c].buffer = <<>> /\ chunk'[1].k = "type")
                   => (emitted' = <<>> /\ conns'[c].buffer = chunk')
             /\ (Len(conns[c].buffer) = 1 /\ conns[c].buffer[1].k = "type"
                   /\ chunk'[1].k = "obj")
                   => (Len(emitted') = 1 /\ conns'[c].buffer = <<>>)]_vars

\* C40: the buffer belongs to one connection: a connection opened by a
\* reconnect begins with an empty buffer, the loss of a connection (EOF or
\* timeout) leaves the tracked resourceVersion as it was, and data on one
\* connection touches no buffer but its own.
BufferPerConnection ==
    [][/\ Len(conns') > Len(conns) => Last(conns').buffer = <<>>
       /\ \A c \in DOMAIN conns :
             /\ (EndStep(c) \/ TimeoutStep(c)) => rv' = rv
             /\ (at' = c /\ chunk' # <<>>) =>
                   \A d \in DOMAIN conns \ {c} : conns'[d].buffer = conns[d].buffer]_vars

\* connection 1 was lost with the first half of event 1 in its buffer (the
\* reconnect asked for the events after 0), and connection 2 has decoded the
\* whole of event 1 on its own
HalfFrameDiscarded ==
    /\ Len(conns) >= 2
    /\ conns[1].state # "open"
    /\ wrote[1] = 1
    /\ conns[2].qsrv = 0
    /\ at = 2
    /\ emitted = <<Ev("create", 1, "-")>>
    /\ rv = 1
    /\ conns[2].buffer = <<>>

\* ------------------------------------------------ properties of parseToken
\* a Location header from which a token can be read: a fragment with a
\* parameter access_token whose value has 10 characters or more
HasToken(loc) ==
    /\ loc.present
    /\ loc.hash
    /\ \E i \in DOMAIN loc.params :
          /\ loc.params[i].name = "access_token"
          /\ loc.params[i].len # Null
          /\ loc.params[i].len >= 10

\* the oAuth server has answered the exchange of r in this step
Exchanged(r) ==
    /\ req[r].pc \in {"auth", "reauth"}
    /\ req'[r].pc \notin {"auth", "reauth"}

\* C34: an oAuth response with a status below 400 whose Location header is
\* missing, has no fragment with access_token in it, or has a token of fewer
\* than 10 characters, fails the exchange with a TokenParseError and stores
\* no token.
UnparseableLocationFails ==
    [][\A r \in Reqs :
          (/\ Exchanged(r)
           /\ req'[r].answer.code = "-"
           /\ req'[r].answer.status < 400
           /\ ~HasToken(req'[r].answer.loc))
          => /\ req'[r].authError.kind = "TokenParseError"
             /\ token' = token]_vars

\* ------------------------------------------------ properties of credentials
\* C35: with preserveAuth false the credentials are discarded only when an
\* exchange has succeeded: they go in the step in which the oAuth server
\* answers with a token, and after an exchange that failed they are still
\* there.
CredentialsSurviveFailure ==
    [][~preserve =>
         /\ \A r \in Reqs :
               (Exchanged(r) /\ req'[r].authError # NoError) => auth'
         /\ (auth /\ ~auth') =>
               \E r \in Reqs : Exchanged(r) /\ req'[r].authError = NoError]_vars

\* ------------------------------------------- properties of two requests
\* request r got a 401 on its first call and its re-authentication obtained a
\* token of the oAuth server
Reauthenticated(r) ==
    /\ req[r].replies # <<>>
    /\ req[r].replies[1].status = 401
    /\ req[r].fresh # 0
    /\ HasToken(req[r].answer.loc)

\* C36: when two requests have both got a 401 and both re-authentications
\* have succeeded, the client holds the token of the exchange that was
\* answered last (the later of the two tokens issued), never null, and each
\* request has made its second call with a token one of the two exchanges
\* obtained.
LastExchangeWins ==
    (\A r \in Pair : req[r].pc = "done" /\ Reauthenticated(r)) =>
        /\ token # 0
        /\ token = IF req[1].fresh > req[2].fresh THEN req[1].fresh ELSE req[2].fresh
        /\ \A r \in Pair :
              /\ Len(req[r].sent) = 2
              /\ req[r].sent[2] \in {req[1].fresh, req[2].fresh}

\* --------------------------------------------------- properties of settling
\* C39: every call of an endpoint method eventually settles, fulfilled or
\* rejected, whatever the oAuth server and the API server answer: a transport
\* error, an error status, a failed re-authentication after a 401, a body
\* that is not JSON.
EventuallySettles ==
    \A r \in Reqs :
        (req[r].pc # "idle") ~> (req[r].pc = "done" /\ req[r].outcome # "pending")

\* a call rejected with the SyntaxError of JSON.parse
RejectedBadBody ==
    \E r \in Reqs :
        /\ req[r].pc = "done"
        /\ req[r].outcome = "rejected"
        /\ req[r].error.kind = "SyntaxError"
        /\ req[r].replies[Len(req[r].replies)] = BadBody

\* ------------------------------------------------ properties of namespaces
Contains(s, m) == FirstAt(s, m) # 0

\* the namespace of the request: none with ns = false, options.namespace when
\* the caller gives one (null included), config.namespace otherwise
Requested ==
    IF pin.ns = "false" THEN Nil
    ELSE IF pin.namespace # <<"absent">> THEN pin.namespace
    ELSE pin.configns

\* C37: a namespace is carried in exactly one place: under v1beta1 and
\* v1beta2 in the query parameter `namespace` and not in the path, where
\* 'nodes' is rewritten to 'minions'; under every other version in the path,
\* as namespaces/{ns}/{resource} with the resource in lower case, and not in
\* the query. A null namespace, or ns = false, is carried in neither.
NamespaceInOnePlace ==
    pout # NoOut =>
        IF Requested = Nil
        THEN /\ pout.qsNamespace = Nil
             /\ ~Contains(pout.url, <<"namespaces">>)
        ELSE IF pin.version \in {<<"v1beta1">>, <<"v1beta2">>}
        THEN /\ pout.qsNamespace = Requested
             /\ ~Contains(pout.url, <<"namespaces">>)
             /\ ~Contains(pout.url, Requested)
             /\ ~Contains(pout.url, <<"nodes">>)
             /\ Contains(pout.url, <<"minions">>) = Contains(pin.resource, <<"nodes">>)
        ELSE /\ pout.qsNamespace = Nil
             /\ Contains(pout.url,
                         pin.version \o <<"/", "namespaces", "/">> \o Requested
                         \o <<"/">> \o toLowerCase(pin.resource))

\* a namespace in the query under v1beta1, the node resource as minions
NamespaceInQuery ==
    /\ pout # NoOut
    /\ pin.version = <<"v1beta1">>
    /\ pin.resource = <<"nodes">>
    /\ pin.namespace = <<"ns1">>
    /\ pin.ns = "absent"
    /\ pout.qsNamespace = <<"ns1">>
    /\ pout.url = <<"https://host", "/", "api", "/", "v1beta1", "/", "minions">>

====
